---------------------------- MODULE Spec2Model ----------------------------
(***************************************************************************)
(* Model of the connectivity graph of the oscillatory network              *)
(* (ccore/network.cpp) and of the radius-based connection builder of the   *)
(* Sync clustering network (syncnet::create_connections, ccore/hsyncnet.h).*)
(*                                                                         *)
(* network.h, syncnet.h and support.h are not among the sources: the edge  *)
(* setter/getter, the dense-matrix threshold and the squared Euclidean     *)
(* distance are modelled from the specification.                           *)
(***************************************************************************)
EXTENDS Integers, Sequences, FiniteSets, TLC

VARIABLES
    pc,                     \* "start" | "network" | "syncnet" | "failed"
    error,                  \* message of the exception that ended construction, or NoError
    num_osc,                \* network::num_osc
    conn_type,              \* the connection_type the constructor was given
    conn_representation,    \* network::conn_representation
    number_elements,        \* length of every adjacency row (network.cpp:36-48)
    osc_conn,               \* adjacency relation: set of <<i, j>> with edge i -> j
    set_calls,              \* number of set_connection calls made so far
    oscillator_locations,   \* syncnet::oscillator_locations (sequence of points)
    connectivity_radius,    \* argument of create_connections (a double)
    enable_conn_weight,     \* argument of create_connections
    distance_conn_weights,  \* syncnet::distance_conn_weights (NULL or N x N doubles)
    maximum_distance,       \* local of create_connections, value at its end
    minimum_distance        \* local of create_connections, value at its end

vars == << pc, error, num_osc, conn_type, conn_representation, number_elements,
           osc_conn, set_calls, oscillator_locations, connectivity_radius,
           enable_conn_weight, distance_conn_weights, maximum_distance,
           minimum_distance >>

(***************************************************************************)
(* Bounds of the model.                                                    *)
(***************************************************************************)
MaxN == 16              \* oscillator counts 0..MaxN for the topology builders
MaxOver == 64           \* counts within MaxOver of the dense-matrix threshold
MaxPoints == 3          \* number of input points of the radius builder
MaxCoord == 1           \* point coordinates are integers 0..MaxCoord
MaxRadiusHalves == 3    \* radii are k/2 for k in 0..MaxRadiusHalves

(***************************************************************************)
(* unsigned int: 32 bits, kept as <<high half, low half>> of 16 bits each, *)
(* so that wraparound is computed and not assumed away.                    *)
(***************************************************************************)
HalfWord == 2^16

U32(n) == << (n \div HalfWord) % HalfWord, n % HalfWord >>

UAdd(a, b) ==
    LET lo == a[2] + b[2]
        hi == a[1] + b[1] + (lo \div HalfWord)
    IN  << hi % HalfWord, lo % HalfWord >>

USub(a, b) ==
    LET lo == a[2] - b[2]
        hi == a[1] - b[1] - (IF lo < 0 THEN 1 ELSE 0)
    IN  << hi % HalfWord, lo % HalfWord >>

\* a / b in unsigned arithmetic; b is below 2^15 (it is a grid side size).
UDiv(a, b) ==
    LET s == b[2]
        q1 == a[1] \div s
        r1 == a[1] % s
    IN  << q1, (r1 * HalfWord + a[2]) \div s >>

ULess(a, b) == a[1] < b[1] \/ (a[1] = b[1] /\ a[2] < b[2])

\* (int) a >= 0: the sign bit of the 32-bit pattern is clear.
IntNonNegative(a) == a[1] < HalfWord \div 2


(***************************************************************************)
(* network: adjacency storage and the edge setter/getter.                  *)
(***************************************************************************)
NoError == "none"
UnknownConnection == "Unknown type of connection"
InvalidGridSize == "Invalid number of oscillators in the network for the grid structure"
IndexOutOfRange == "IndexOutOfRange"

ConnTypes == {"NONE", "ALL_TO_ALL", "GRID_FOUR", "GRID_EIGHT", "LIST_BIDIR"}

MAXIMUM_OSCILLATORS_MATRIX_REPRESENTATION == 4096
SizeofUnsignedInt == 4

\* network.cpp:36-44: representation and row length chosen by the constructor.
\* std::ceil is applied to the result of an integer division.
representation_of(number_oscillators) ==
    IF number_oscillators > MAXIMUM_OSCILLATORS_MATRIX_REPRESENTATION
    THEN "BITMAP_CONN_REPRESENTATION"
    ELSE "MATRIX_CONN_REPRESENTATION"

row_elements(number_oscillators) ==
    IF number_oscillators > MAXIMUM_OSCILLATORS_MATRIX_REPRESENTATION
    THEN number_oscillators \div SizeofUnsignedInt
    ELSE number_oscillators

\* The graph under construction: edges set, calls made, exception raised.
EmptyNet == [conn |-> {}, calls |-> 0, error |-> NoError]

InRange(a, num) == ULess(a, U32(num))

\* set_connection(i, j): marks the directed edge i -> j; an index at or
\* beyond the oscillator count fails with IndexOutOfRange.
set_connection(net, call, num) ==
    IF InRange(call[1], num) /\ InRange(call[2], num)
    THEN [net EXCEPT !.conn = @ \cup {<< call[1][2], call[2][2] >>},
                     !.calls = @ + 1]
    ELSE [net EXCEPT !.calls = @ + 1, !.error = IndexOutOfRange]

\* The calls of a builder, made in program order: every call before the
\* first failing one takes effect, the failing one ends the construction.
set_connections(net, calls, num) ==
    IF net.error # NoError THEN net
    ELSE
        LET failing == { k \in 1 .. Len(calls) :
                            set_connection(EmptyNet, calls[k], num).error # NoError }
            last == IF failing = {} THEN Len(calls)
                    ELSE CHOOSE k \in failing : \A m \in failing : k <= m
            done == UNION { set_connection(EmptyNet, calls[k], num).conn :
                                k \in 1 .. last }
        IN  [conn |-> net.conn \cup done,
             calls |-> net.calls + last,
             error |-> IF failing = {} THEN NoError ELSE IndexOutOfRange]

get_connection(conn, i, j) == << i, j >> \in conn

get_neighbors(conn, index, num) ==
    { index_neighbour \in 0 .. num - 1 : get_connection(conn, index, index_neighbour) }

(***************************************************************************)
(* Topology builders (network.cpp:98-191).  Each *_calls operator is the   *)
(* body of the builder's loop for one index: the set_connection calls it   *)
(* makes, in order.                                                        *)
(***************************************************************************)
create_none_connections(net, num) == net

\* Variant: only the direction row -> col is set.
all_to_all_calls_one_way(row, col) ==
    << << U32(row), U32(col) >> >>

all_to_all_calls(row, col) ==
    << << U32(row), U32(col) >>, << U32(col), U32(row) >> >>

RECURSIVE all_to_all_cols(_, _, _)
all_to_all_cols(row, col, num) ==
    IF col < num
    THEN all_to_all_calls(row, col) \o all_to_all_cols(row, col + 1, num)
    ELSE << >>

\* Variant: the inner loop starts at col = row.
all_to_all_first_col_same_row(row) == row

all_to_all_first_col(row) == row + 1

RECURSIVE all_to_all_rows(_, _)
all_to_all_rows(row, num) ==
    IF row < num
    THEN all_to_all_cols(row, all_to_all_first_col(row), num) \o all_to_all_rows(row + 1, num)
    ELSE << >>

create_all_to_all_connections(net, num) ==
    set_connections(net, all_to_all_rows(0, num), num)

list_bidir_calls(index, num) ==
    LET idx == U32(index)
    IN  (IF ULess(U32(0), idx)
         THEN << << idx, USub(idx, U32(1)) >> >> ELSE << >>)
        \o
        (IF ULess(idx, USub(U32(num), U32(1)))
         THEN << << idx, UAdd(idx, U32(1)) >> >> ELSE << >>)

RECURSIVE list_bidir_loop(_, _)
list_bidir_loop(index, num) ==
    IF index < num
    THEN list_bidir_calls(index, num) \o list_bidir_loop(index + 1, num)
    ELSE << >>

list_bidir_first_index == 1

create_list_bidir_connections(net, num) ==
    set_connections(net, list_bidir_loop(list_bidir_first_index, num), num)

\* std::sqrt((double) num_osc): exact for a perfect square, and not an
\* integer otherwise (num_osc < 2^32 fits the 53-bit mantissa with room).
floor_sqrt(n) == CHOOSE s \in 0 .. n : s * s <= n /\ (s + 1) * (s + 1) > n

sqrt_has_fraction(n) == floor_sqrt(n) * floor_sqrt(n) # n

\* Variant: the right neighbour is connected without the same-row test.
grid_four_calls_no_row_check(index, num, side) ==
    LET idx == U32(index)
        side_size == U32(side)
        upper_index == USub(idx, side_size)
        lower_index == UAdd(idx, side_size)
        left_index == USub(idx, U32(1))
        right_index == UAdd(idx, U32(1))
        node_row_index == UDiv(idx, side_size)
    IN  (IF IntNonNegative(upper_index)
         THEN << << idx, upper_index >> >> ELSE << >>)
        \o
        (IF ULess(lower_index, U32(num))
         THEN << << idx, lower_index >> >> ELSE << >>)
        \o
        (IF IntNonNegative(left_index) /\ UDiv(left_index, side_size) = node_row_index
         THEN << << idx, left_index >> >> ELSE << >>)
        \o
        (IF ULess(right_index, U32(num))
         THEN << << idx, right_index >> >> ELSE << >>)

\* network.cpp:130-150.  upper/lower/left/right are int: the unsigned
\* result is reinterpreted, ">= 0" tests the sign bit, "< num_osc" and
\* "/ side_size" convert back to unsigned.  std::ceil of an integer
\* quotient is that quotient.
grid_four_calls(index, num, side) ==
    LET idx == U32(index)
        side_size == U32(side)
        upper_index == USub(idx, side_size)
        lower_index == UAdd(idx, side_size)
        left_index == USub(idx, U32(1))
        right_index == UAdd(idx, U32(1))
        node_row_index == UDiv(idx, side_size)
    IN  (IF IntNonNegative(upper_index)
         THEN << << idx, upper_index >> >> ELSE << >>)
        \o
        (IF ULess(lower_index, U32(num))
         THEN << << idx, lower_index >> >> ELSE << >>)
        \o
        (IF IntNonNegative(left_index) /\ UDiv(left_index, side_size) = node_row_index
         THEN << << idx, left_index >> >> ELSE << >>)
        \o
        (IF ULess(right_index, U32(num)) /\ UDiv(right_index, side_size) = node_row_index
         THEN << << idx, right_index >> >> ELSE << >>)

RECURSIVE grid_four_loop(_, _, _)
grid_four_loop(index, num, side) ==
    IF index < num
    THEN grid_four_calls(index, num, side) \o grid_four_loop(index + 1, num, side)
    ELSE << >>

\* Variant: the side size is validated after the loop instead of before it.
create_grid_four_connections_late_check(net, num) ==
    LET built == set_connections(net, grid_four_loop(0, num, floor_sqrt(num)), num)
    IN  IF sqrt_has_fraction(num) /\ built.error = NoError
        THEN [built EXCEPT !.error = InvalidGridSize]
        ELSE built

create_grid_four_connections(net, num) ==
    IF sqrt_has_fraction(num)
    THEN [net EXCEPT !.error = InvalidGridSize]
    ELSE set_connections(net, grid_four_loop(0, num, floor_sqrt(num)), num)

\* Variant: the lower-right neighbour is connected without the row test.
grid_eight_calls_no_row_check(index, num, side) ==
    LET idx == U32(index)
        side_size == U32(side)
        one == U32(1)
        upper_left_index == USub(USub(idx, side_size), one)
        upper_right_index == UAdd(USub(idx, side_size), one)
        lower_left_index == USub(UAdd(idx, side_size), one)
        lower_right_index == UAdd(UAdd(idx, side_size), one)
        node_row_index == UDiv(idx, side_size)
        upper_row_index == USub(node_row_index, one)
        lower_row_index == UAdd(node_row_index, one)
    IN  (IF UDiv(upper_left_index, side_size) = upper_row_index
         THEN << << idx, upper_left_index >> >> ELSE << >>)
        \o
        (IF UDiv(upper_right_index, side_size) = upper_row_index
         THEN << << idx, upper_right_index >> >> ELSE << >>)
        \o
        (IF ULess(lower_left_index, U32(num))
            /\ UDiv(lower_left_index, side_size) = lower_row_index
         THEN << << idx, lower_left_index >> >> ELSE << >>)
        \o
        (IF ULess(lower_right_index, U32(num))
         THEN << << idx, lower_right_index >> >> ELSE << >>)

\* network.cpp:160-189.  Everything is unsigned int: "x >= 0" is always
\* true, and index - side_size - 1 or node_row_index - 1 wrap around.
grid_eight_calls(index, num, side) ==
    LET idx == U32(index)
        side_size == U32(side)
        one == U32(1)
        upper_left_index == USub(USub(idx, side_size), one)
        upper_right_index == UAdd(USub(idx, side_size), one)
        lower_left_index == USub(UAdd(idx, side_size), one)
        lower_right_index == UAdd(UAdd(idx, side_size), one)
        node_row_index == UDiv(idx, side_size)
        upper_row_index == USub(node_row_index, one)
        lower_row_index == UAdd(node_row_index, one)
    IN  (IF UDiv(upper_left_index, side_size) = upper_row_index
         THEN << << idx, upper_left_index >> >> ELSE << >>)
        \o
        (IF UDiv(upper_right_index, side_size) = upper_row_index
         THEN << << idx, upper_right_index >> >> ELSE << >>)
        \o
        (IF ULess(lower_left_index, U32(num))
            /\ UDiv(lower_left_index, side_size) = lower_row_index
         THEN << << idx, lower_left_index >> >> ELSE << >>)
        \o
        (IF ULess(lower_right_index, U32(num))
            /\ UDiv(lower_right_index, side_size) = lower_row_index
         THEN << << idx, lower_right_index >> >> ELSE << >>)

RECURSIVE grid_eight_loop(_, _, _)
grid_eight_loop(index, num, side) ==
    IF index < num
    THEN grid_eight_calls(index, num, side) \o grid_eight_loop(index + 1, num, side)
    ELSE << >>

create_grid_eight_connections(net, num) ==
    LET four == create_grid_four_connections(net, num)
    IN  IF four.error # NoError THEN four
        ELSE set_connections(four, grid_eight_loop(0, num, floor_sqrt(num)), num)

create_structure(net, connection_structure, num) ==
    CASE connection_structure = "NONE" -> create_none_connections(net, num)
      [] connection_structure = "ALL_TO_ALL" -> create_all_to_all_connections(net, num)
      [] connection_structure = "GRID_FOUR" -> create_grid_four_connections(net, num)
      [] connection_structure = "GRID_EIGHT" -> create_grid_eight_connections(net, num)
      [] connection_structure = "LIST_BIDIR" -> create_list_bidir_connections(net, num)
      [] OTHER -> [net EXCEPT !.error = UnknownConnection]


(***************************************************************************)
(* double.  The values arising are small rationals and values of the size  *)
(* of std::numeric_limits<double>::max(); a double is kept as              *)
(* (n / d) * DBL_MAX^e.  Adding or subtracting values of different e       *)
(* rounds to the one of larger magnitude (the smaller is far below half an *)
(* ulp of it).  Quotients of small values are kept exact: rounding to      *)
(* nearest is monotone and keeps 0 and 1, which is all that is compared.   *)
(***************************************************************************)
Dbl(n) == [e |-> 0, n |-> n, d |-> 1]

Ratio(n, d) == [e |-> 0, n |-> n, d |-> d]

DBL_MAX == [e |-> 1, n |-> 1, d |-> 1]

Canon(x) == IF x.n = 0 THEN Dbl(0) ELSE x

FNeg(x) == [x EXCEPT !.n = -x.n]

FSub(a, b) ==
    IF b.n = 0 THEN a
    ELSE IF a.n = 0 THEN FNeg(b)
    ELSE IF a.e = b.e
         THEN Canon([e |-> a.e, n |-> a.n * b.d - b.n * a.d, d |-> a.d * b.d])
    ELSE IF a.e > b.e THEN a
    ELSE FNeg(b)

FMul(a, b) == Canon([e |-> a.e + b.e, n |-> a.n * b.n, d |-> a.d * b.d])

\* b is not zero.
FDiv(a, b) ==
    LET sign == IF b.n < 0 THEN -1 ELSE 1
    IN  Canon([e |-> a.e - b.e, n |-> sign * a.n * b.d, d |-> sign * a.d * b.n])

FLess(a, b) == FSub(a, b).n < 0

FEq(a, b) == FSub(a, b).n = 0

FLeq(a, b) == ~ FLess(b, a)

(***************************************************************************)
(* syncnet::create_connections (hsyncnet.h:120-176).                       *)
(***************************************************************************)
Coords == 0 .. MaxCoord

Points == Coords \X Coords

Radii == { Ratio(k, 2) : k \in 0 .. MaxRadiusHalves }

\* euclidean_distance_sqrt: the squared Euclidean distance of two points.
euclidean_distance_sqrt(p, q) ==
    Dbl((p[1] - q[1]) * (p[1] - q[1]) + (p[2] - q[2]) * (p[2] - q[2]))

\* The pairs (i, j), i < j, in the order of the two nested loops.
RECURSIVE pair_cols(_, _, _)
pair_cols(i, j, num) ==
    IF j < num THEN << << i, j >> >> \o pair_cols(i, j + 1, num) ELSE << >>

RECURSIVE pair_rows(_, _)
pair_rows(i, num) ==
    IF i < num THEN pair_cols(i, i + 1, num) \o pair_rows(i + 1, num) ELSE << >>

\* Variant: only the direction j -> i is set.
connect_calls_one_way(i, j, distance, sqrt_connectivity_radius) ==
    IF FLeq(distance, sqrt_connectivity_radius)
    THEN << << U32(j), U32(i) >> >>
    ELSE << >>

\* hsyncnet.h:138-141: the calls made for the pair (i, j).
connect_calls(i, j, distance, sqrt_connectivity_radius) ==
    IF FLeq(distance, sqrt_connectivity_radius)
    THEN << << U32(j), U32(i) >>, << U32(i), U32(j) >> >>
    ELSE << >>

\* hsyncnet.h:147-153: both branches assign maximum_distance.
track_maximum(maximum, distance) ==
    LET after_first == IF FLess(maximum, distance) THEN distance ELSE maximum
    IN  IF FLess(distance, after_first) THEN distance ELSE after_first

\* hsyncnet.h:147-153: minimum_distance is assigned by neither branch.
track_minimum(minimum, distance) == minimum

\* hsyncnet.h:134-156: the first pair of loops, run over pairs[k..].
\* st = [net, weights, maximum, minimum]
RECURSIVE measure_pairs(_, _, _, _, _, _)
measure_pairs(st, pairs, k, locations, radius2, weighted) ==
    IF k > Len(pairs) THEN st
    ELSE
        LET i == pairs[k][1]
            j == pairs[k][2]
            distance == euclidean_distance_sqrt(locations[i + 1], locations[j + 1])
            net == set_connections(st.net, connect_calls(i, j, distance, radius2),
                                   Len(locations))
            next == IF weighted
                    THEN [net |-> net,
                          weights |-> [st.weights EXCEPT ![i][j] = distance,
                                                         ![j][i] = distance],
                          maximum |-> track_maximum(st.maximum, distance),
                          minimum |-> track_minimum(st.minimum, distance)]
                    ELSE [st EXCEPT !.net = net]
        IN  measure_pairs(next, pairs, k + 1, locations, radius2, weighted)

\* hsyncnet.h:159-165
multiplier_of(maximum, minimum) ==
    IF ~ FEq(maximum, minimum) THEN FSub(maximum, minimum) ELSE Dbl(1)

subtractor_of(maximum, minimum) ==
    IF ~ FEq(maximum, minimum) THEN minimum ELSE Dbl(0)

\* hsyncnet.h:169
value_weight(recorded, subtractor, multiplier) ==
    FDiv(FSub(recorded, subtractor), multiplier)

\* hsyncnet.h:167-174: the second pair of loops.
normalize_weights(weights, num, subtractor, multiplier) ==
    [ a \in 0 .. num - 1 |-> [ b \in 0 .. num - 1 |->
        IF a = b THEN weights[a][b]
        ELSE LET i == IF a < b THEN a ELSE b
                 j == IF a < b THEN b ELSE a
             IN  value_weight(weights[i][j], subtractor, multiplier) ] ]

\* The null pointer held when weighting is disabled.
NULL == [null |-> TRUE]

create_connections(net, locations, radius, weighted) ==
    LET num == Len(locations)
        sqrt_connectivity_radius == FMul(radius, radius)
        start == [net |-> net,
                  weights |-> IF weighted
                              THEN [ a \in 0 .. num - 1 |-> [ b \in 0 .. num - 1 |-> Dbl(0) ] ]
                              ELSE NULL,
                  maximum |-> Dbl(0),
                  minimum |-> DBL_MAX]
        measured == measure_pairs(start, pair_rows(0, num), 1, locations,
                                  sqrt_connectivity_radius, weighted)
    IN  IF weighted
        THEN [measured EXCEPT !.weights =
                normalize_weights(measured.weights, num,
                                  subtractor_of(measured.maximum, measured.minimum),
                                  multiplier_of(measured.maximum, measured.minimum))]
        ELSE measured

(***************************************************************************)
(* The state machine: one construction per behaviour.                      *)
(***************************************************************************)
Init ==
    /\ pc = "start"
    /\ error = NoError
    /\ num_osc = 0
    /\ conn_type = "NONE"
    /\ conn_representation = "MATRIX_CONN_REPRESENTATION"
    /\ number_elements = 0
    /\ osc_conn = {}
    /\ set_calls = 0
    /\ oscillator_locations = << >>
    /\ connectivity_radius = Dbl(0)
    /\ enable_conn_weight = FALSE
    /\ distance_conn_weights = NULL
    /\ maximum_distance = Dbl(0)
    /\ minimum_distance = DBL_MAX

\* network::network(number_oscillators, connection_type), network.cpp:32-51
network_ctor(number_oscillators, connection_type) ==
    /\ pc = "start"
    /\ LET net == create_structure(EmptyNet, connection_type, number_oscillators)
       IN  /\ pc' = IF net.error = NoError THEN "network" ELSE "failed"
           /\ error' = net.error
           /\ osc_conn' = net.conn
           /\ set_calls' = net.calls
    /\ num_osc' = number_oscillators
    /\ conn_type' = connection_type
    /\ conn_representation' = representation_of(number_oscillators)
    /\ number_elements' = row_elements(number_oscillators)
    /\ UNCHANGED << oscillator_locations, connectivity_radius, enable_conn_weight,
                    distance_conn_weights, maximum_distance, minimum_distance >>

\* syncnet::syncnet(input_data, connectivity_radius, enable_conn_weight, ...),
\* hsyncnet.h:87-91: the base network is built with conn_type::NONE, then
\* create_connections runs.
syncnet_ctor(input_data, radius, weighted) ==
    /\ pc = "start"
    /\ LET num == Len(input_data)
           base == create_structure(EmptyNet, "NONE", num)
           built == create_connections(base, input_data, radius, weighted)
       IN  /\ pc' = IF built.net.error = NoError THEN "syncnet" ELSE "failed"
           /\ error' = built.net.error
           /\ osc_conn' = built.net.conn
           /\ set_calls' = built.net.calls
           /\ distance_conn_weights' = built.weights
           /\ maximum_distance' = built.maximum
           /\ minimum_distance' = built.minimum
           /\ num_osc' = num
           /\ conn_representation' = representation_of(num)
           /\ number_elements' = row_elements(num)
    /\ conn_type' = "NONE"
    /\ oscillator_locations' = input_data
    /\ connectivity_radius' = radius
    /\ enable_conn_weight' = weighted

PointSeqs == UNION { [1 .. n -> Points] : n \in 0 .. MaxPoints }

BuildNetwork ==
    /\ pc = "start"
    /\ \E n \in 0 .. MaxN : \E t \in ConnTypes \cup {"UNKNOWN"} : network_ctor(n, t)

BuildSyncnet ==
    /\ pc = "start"
    /\ \E data \in PointSeqs : \E r \in Radii : \E w \in BOOLEAN : syncnet_ctor(data, r, w)

Next == BuildNetwork \/ BuildSyncnet

Spec == Init /\ [][Next]_vars

\* Oscillator counts around the dense-matrix threshold; the edge-free
\* topology is the one the Sync network builds its base with.
AllocSizes ==
    (0 .. MaxN) \cup
    { n \in (MAXIMUM_OSCILLATORS_MATRIX_REPRESENTATION - MaxOver)
              .. (MAXIMUM_OSCILLATORS_MATRIX_REPRESENTATION + MaxOver) : n >= 0 }

AllocateNetwork ==
    /\ pc = "start"
    /\ \E n \in AllocSizes : network_ctor(n, "NONE")

NextAlloc == AllocateNetwork

SpecAlloc == Init /\ [][NextAlloc]_vars


(***************************************************************************)
(* Properties.                                                             *)
(***************************************************************************)
Osc == 0 .. num_osc - 1

Edge(i, j) == get_connection(osc_conn, i, j)

IsPerfectSquare(n) == \E s \in 0 .. n : s * s = n

Side == CHOOSE s \in 0 .. num_osc : s * s = num_osc

GridRow(i) == i \div Side
GridCol(i) == i % Side

Abs(x) == IF x < 0 THEN -x ELSE x

OnRowBorder(i) == GridRow(i) = 0 \/ GridRow(i) = Side - 1
OnColBorder(i) == GridCol(i) = 0 \/ GridCol(i) = Side - 1

IsCorner(i) == OnRowBorder(i) /\ OnColBorder(i)
IsInterior(i) == ~ OnRowBorder(i) /\ ~ OnColBorder(i)
IsBorderNotCorner(i) == ~ IsCorner(i) /\ ~ IsInterior(i)

NeighbourCount(i) == Cardinality(get_neighbors(osc_conn, i, num_osc))

\* C1: right after network(N, NONE) no pair (i, j) is connected, and right
\* after network(N, ALL_TO_ALL) every pair i # j is connected; both
\* constructions succeed for every N.
C1_NoneAndAllToAll ==
    (pc \in {"network", "failed"} /\ conn_type \in {"NONE", "ALL_TO_ALL"}) =>
        /\ pc = "network"
        /\ conn_type = "NONE" => \A i, j \in Osc : ~ Edge(i, j)
        /\ conn_type = "ALL_TO_ALL" => \A i, j \in Osc : i # j => Edge(i, j)

C1_Witness ==
    pc = "network" /\ conn_type = "ALL_TO_ALL" /\ num_osc >= 3 /\ Edge(2, 0)

\* C2: LIST_BIDIR builds the path graph in both directions: i -> i-1 exists
\* iff i >= 1, i -> i+1 exists iff i+1 < N, and no other edge exists.
C2_ListBidirIsPath ==
    (pc = "network" /\ conn_type = "LIST_BIDIR") =>
        \A i, j \in Osc : Edge(i, j) <=> (j = i - 1 \/ j = i + 1)

\* The grid-four shape: neighbour counts 4 / 3 / 2 for interior / border /
\* corner nodes, and no edge index -> index+1 or index -> index-1 between
\* nodes of different grid rows.
GridFourShape ==
    /\ \A i \in Osc :
        /\ IsInterior(i) => NeighbourCount(i) = 4
        /\ IsBorderNotCorner(i) => NeighbourCount(i) = 3
        /\ IsCorner(i) => NeighbourCount(i) = 2
    /\ \A i, j \in Osc :
        (Abs(i - j) = 1 /\ GridRow(i) # GridRow(j)) => ~ Edge(i, j)

\* C3 as stated: the grid-four shape holds on every perfect-square N.
C3_GridFourAnySquare ==
    (pc = "network" /\ conn_type = "GRID_FOUR") => GridFourShape

\* C3 amended: the grid-four shape holds on every perfect-square N with
\* side >= 2; for N = 1 the single node has no neighbour.
C3_GridFourSideAtLeastTwo ==
    (pc \in {"network", "failed"} /\ conn_type = "GRID_FOUR"
       /\ IsPerfectSquare(num_osc)) =>
        /\ pc = "network"
        /\ num_osc >= 4 => GridFourShape
        /\ num_osc = 1 => NeighbourCount(0) = 0

C3_Witness ==
    /\ pc = "network" /\ conn_type = "GRID_FOUR" /\ num_osc = 9
    /\ NeighbourCount(4) = 4 /\ NeighbourCount(5) = 3 /\ NeighbourCount(8) = 2
    /\ ~ Edge(2, 3)

DiagonalNeighbours(i, j) ==
    Abs(GridRow(i) - GridRow(j)) = 1 /\ Abs(GridCol(i) - GridCol(j)) = 1

GridFourEdges(num) == create_grid_four_connections(EmptyNet, num).conn

\* C4: for every perfect-square N, GRID_EIGHT builds exactly the GRID_FOUR
\* edges plus the edges to the diagonal grid neighbours; no call is made
\* for a neighbour that does not exist.
C4_GridEightExtendsGridFour ==
    (pc \in {"network", "failed"} /\ conn_type = "GRID_EIGHT"
       /\ IsPerfectSquare(num_osc)) =>
        /\ pc = "network"
        /\ \A i, j \in Osc :
            Edge(i, j) <=> (<< i, j >> \in GridFourEdges(num_osc) \/ DiagonalNeighbours(i, j))

C4_Witness ==
    /\ pc = "network" /\ conn_type = "GRID_EIGHT" /\ num_osc = 9
    /\ NeighbourCount(4) = 8 /\ NeighbourCount(0) = 3
    /\ Edge(0, 4) /\ ~ Edge(2, 3)

\* C5: a grid topology on an N that is not a perfect square ends in the
\* InvalidGridSize error, raised before any set_connection call.
C5_InvalidGridSizeBeforeAnyEdge ==
    (pc \in {"network", "failed"} /\ conn_type \in {"GRID_FOUR", "GRID_EIGHT"}
       /\ ~ IsPerfectSquare(num_osc)) =>
        /\ pc = "failed"
        /\ error = InvalidGridSize
        /\ set_calls = 0
        /\ osc_conn = {}

C5_Witness ==
    pc = "failed" /\ conn_type = "GRID_EIGHT" /\ num_osc = 8 /\ error = InvalidGridSize

PairDistance(i, j) ==
    euclidean_distance_sqrt(oscillator_locations[i + 1], oscillator_locations[j + 1]).n

\* distance > radius^2, with radius = n / d
BeyondRadius(i, j) ==
    PairDistance(i, j) * connectivity_radius.d * connectivity_radius.d
        > connectivity_radius.n * connectivity_radius.n

\* C6: after create_connections with radius > 0, two distinct points farther
\* apart than the radius are connected in neither direction and two distinct
\* points at distance 0 are connected in both, weighted or not.
C6_RadiusDecidesEdges ==
    (pc = "syncnet" /\ connectivity_radius.n > 0) =>
        \A i, j \in Osc : i # j =>
            /\ BeyondRadius(i, j) => (~ Edge(i, j) /\ ~ Edge(j, i))
            /\ PairDistance(i, j) = 0 => (Edge(i, j) /\ Edge(j, i))

C6_Witness ==
    /\ pc = "syncnet" /\ connectivity_radius.n > 0 /\ enable_conn_weight
    /\ num_osc = 3
    /\ PairDistance(0, 1) = 0 /\ Edge(0, 1) /\ Edge(1, 0)
    /\ BeyondRadius(0, 2) /\ ~ Edge(0, 2)

PairsOf == { p \in Osc \X Osc : p[1] < p[2] }

\* C7: with weighting enabled and all pairwise squared distances equal,
\* every off-diagonal weight is 0 after create_connections.
C7_EqualDistancesGiveZeroWeights ==
    (pc = "syncnet" /\ enable_conn_weight
       /\ \A p, q \in PairsOf : PairDistance(p[1], p[2]) = PairDistance(q[1], q[2])) =>
        \A i, j \in Osc : i # j => FEq(distance_conn_weights[i][j], Dbl(0))

TrueMinimum ==
    CHOOSE m \in { PairDistance(p[1], p[2]) : p \in PairsOf } :
        \A p \in PairsOf : m <= PairDistance(p[1], p[2])

TrueMaximum ==
    CHOOSE m \in { PairDistance(p[1], p[2]) : p \in PairsOf } :
        \A p \in PairsOf : m >= PairDistance(p[1], p[2])

\* C8: with weighting enabled the weight matrix is symmetric, every entry
\* lies in [0, 1], and the off-diagonal entries are the recorded squared
\* distances normalised with their true minimum and maximum.
C8_WeightsNormalisedByTrueExtremes ==
    (pc = "syncnet" /\ enable_conn_weight) =>
        /\ \A i, j \in Osc :
            /\ FEq(distance_conn_weights[i][j], distance_conn_weights[j][i])
            /\ FLeq(Dbl(0), distance_conn_weights[i][j])
            /\ FLeq(distance_conn_weights[i][j], Dbl(1))
        /\ (PairsOf # {} /\ TrueMaximum # TrueMinimum) =>
            \A i, j \in Osc : i # j =>
                FEq(distance_conn_weights[i][j],
                    Ratio(PairDistance(i, j) - TrueMinimum, TrueMaximum - TrueMinimum))

\* C9: no builder creates a self-loop, for any N the builder accepts.
C9_NoSelfLoops ==
    pc \in {"network", "syncnet"} => \A i \in Osc : ~ Edge(i, i)

C9_Witness ==
    pc = "network" /\ conn_type = "GRID_EIGHT" /\ num_osc = 1 /\ set_calls = 0

WordBits == 8 * SizeofUnsignedInt

CeilDiv(a, b) == (a + b - 1) \div b

\* C10: above the dense-matrix threshold every adjacency row has exactly
\* ceil(N / wordBits) elements; at or below it, exactly N elements.
C10_RowLength ==
    pc = "network" =>
        number_elements =
            IF num_osc > MAXIMUM_OSCILLATORS_MATRIX_REPRESENTATION
            THEN CeilDiv(num_osc, WordBits)
            ELSE num_osc

=============================================================================
